---- MODULE Spec2Model ----
(***************************************************************************)
(* Model of thread.Summarise (src/thread/thread.go) of dhowden/gerrit:     *)
(* the change-summary assembler and its comment-thread reconstruction.     *)
(*                                                                         *)
(* One invocation of Summarise is a state machine: the GetChange call and  *)
(* the fast path, the ListChangeComments call, one step per comment of the *)
(* reconstruction loop, the collection and sort of the open tips, the      *)
(* deduplication loop and the assembly of the Summary.  The responses of   *)
(* the remote service are the inputs, drawn from bounded sets.             *)
(***************************************************************************)
EXTENDS Integers, Sequences, FiniteSets, TLC

VARIABLES
    remote,    \* the state of the remote service: [change, comments]
    pc,        \* position in Summarise
    calls,     \* network calls made so far, in order
    ch,        \* *ChangeInfo returned by GetChange
    comments,  \* ChangeComments returned by ListChangeComments: path -> []CommentInfo
    todo,      \* keys of comments the range loop has not yet visited
    path,      \* key the range loop is at
    idx,       \* index of the next comment of comments[path]
    threads,   \* map: comment ID -> CommentInfo
    authors,   \* map: comment ID -> []AccountInfo
    ucs,       \* []CommentInfo, the sorted open tips
    ret,       \* what Summarise returned: [s, err]
    first,     \* what the previous invocation returned, when Summarise is run again
    callErr,   \* the error the most recent network call returned, NoError if none
    other,     \* the locals of a second invocation of Summarise, while it does not run
    input,     \* the arguments of a call of one of the other functions of the package
    output     \* what that call has returned, Nil before it returns

vars == <<remote, pc, calls, ch, comments, todo, path, idx, threads, authors, ucs, ret,
          first, callErr, other, input, output>>

----------------------------------------------------------------------------
(* Bounds of the model *)

\* most comments in one ListChangeComments response
MaxComments == 3

\* most messages in the message history of a change
MaxMessages == 3

\* most comments in one response when two invocations run at once
PairComments == 2

(* Domains the state of the remote service is drawn from *)
Usernames == {"alice", "bob"}
Timestamps == {1, 2}
UnresolvedCounts == {0, 1}

\* Comment IDs are 1..MaxComments; the empty string of InReplyTo is NoID
NoID == 0
NoPath == ""
Nil == [nil |-> TRUE]

AccountInfo(u) == [Username |-> u]

\* an AccountInfo with its display name
NamedAccount(u, n) == [Username |-> u, Name |-> n]

\* the Path a comment carries of its own; the API leaves it out of the entries of
\* the map, which is keyed by path
OwnPaths == {NoPath, "c.go"}

\* whom the messages of a change are written by: an account with a username, two
\* accounts without one, or (Nil) nobody, for a message of Gerrit itself
MessageAuthors ==
    {NamedAccount("alice", "Alice"), NamedAccount("", "Carol"), NamedAccount("", "Dave"), Nil}

ChangeNumbers == {7, 120}

----------------------------------------------------------------------------
(* Go maps *)

MapDelete(m, k) == [x \in (DOMAIN m) \ {k} |-> m[x]]

MapPut(m, k, v) == [x \in (DOMAIN m) \cup {k} |-> IF x = k THEN v ELSE m[x]]

\* m[k] of a map whose values are slices: the nil slice when k is absent
MapGetSlice(m, k) == IF k \in DOMAIN m THEN m[k] ELSE <<>>

EmptyMap == [x \in {} |-> Nil]

----------------------------------------------------------------------------
(* States of the remote service *)

\* a CommentInfo as ListChangeComments decodes it
CommentInfo(id, f) ==
    [ID |-> id, InReplyTo |-> f.InReplyTo, Author |-> AccountInfo(f.Author),
     Unresolved |-> f.Unresolved, Updated |-> f.Updated, Path |-> f.Path,
     PatchSet |-> 1 + (id % 2), Line |-> 10 * id, Message |-> <<"text of comment", id>>]

\* what varies from comment to comment
RawFields ==
    [InReplyTo : 0..MaxComments, Author : Usernames, Unresolved : BOOLEAN,
     Updated : 1..MaxComments, Path : OwnPaths]

\* the fields of comment i in review histories that differ in their reply structure
\* and authors: any parent reference but itself; the first comment is alice's (the
\* code only compares usernames for equality); later comments carry earlier
\* timestamps, so that the sort has work to do
ChainFields(i) ==
    {r \in RawFields : /\ r.InReplyTo # i
                       /\ i = 1 => r.Author = "alice"
                       /\ r.Updated = MaxComments + 1 - i
                       /\ r.Path = NoPath}

\* the fields of comment i in review histories that differ in their reply structure
\* and in the paths the comments carry
PathFields(i) ==
    {r \in RawFields : /\ r.InReplyTo # i
                       /\ r.Author = "alice"
                       /\ r.Updated = MaxComments + 1 - i}

\* the fields of comment i in review histories that differ in their reply structure
\* and timestamps.  Updated is read only from the values of threads (line 138),
\* which are unresolved comments, so a resolved comment carries one timestamp
TimedFields(i) ==
    {r \in RawFields : /\ r.InReplyTo # i
                       /\ r.Author = "alice"
                       /\ r.Updated \in Timestamps
                       /\ r.Unresolved \/ r.Updated = 1
                       /\ r.Path = NoPath}

\* the comments 1..n, the first k under a.go and the rest under b.go
SplitComments(f, n, k) ==
    LET keys == (IF k >= 1 THEN {"a.go"} ELSE {}) \cup (IF k < n THEN {"b.go"} ELSE {})
    IN [p \in keys |-> IF p = "a.go" THEN [i \in 1..k |-> CommentInfo(i, f[i])]
                       ELSE [i \in 1..(n - k) |-> CommentInfo(k + i, f[k + i])]]

\* a.go holds the first comment when there is one: the two keys are interchangeable
SplitPoints(n) == IF n = 0 THEN {0} ELSE 1..n

\* the fields of the comments 1..n, one choice of ChainFields each
RECURSIVE ChainChoices(_)
ChainChoices(n) ==
    IF n = 0 THEN {<<>>}
    ELSE {Append(f, r) : f \in ChainChoices(n - 1), r \in ChainFields(n)}

\* the fields of the comments 1..n, one choice of TimedFields each
RECURSIVE TimedChoices(_)
TimedChoices(n) ==
    IF n = 0 THEN {<<>>}
    ELSE {Append(f, r) : f \in TimedChoices(n - 1), r \in TimedFields(n)}

\* the fields of the comments 1..n, one choice of PathFields each
RECURSIVE PathChoices(_)
PathChoices(n) ==
    IF n = 0 THEN {<<>>}
    ELSE {Append(f, r) : f \in PathChoices(n - 1), r \in PathFields(n)}

\* the service counts no unresolved comment only when every comment is resolved
Consistent(c, f, n) == c = 0 => \A i \in 1..n : ~f[i].Unresolved

\* a ChangeInfo as GetChange decodes it, with n unresolved comments, no message,
\* no revision and no reviewer
ChangeInfo(n) ==
    [Number |-> 7, Project |-> "proj", Branch |-> "main", Subject |-> "subject",
     Created |-> 1, Updated |-> 2, Submitted |-> 3,
     TotalCommentCount |-> MaxComments, UnresolvedCommentCount |-> n,
     Revisions |-> EmptyMap, Reviewers |-> EmptyMap, Messages |-> <<>>]

RevisionInfo(m) == [Commit |-> [Message |-> m]]

\* the revisions a change is fetched with: CURRENT_REVISION asks for one, a change
\* may come with none or with more
RevisionMaps ==
    {EmptyMap,
     [r \in {"rev1"} |-> RevisionInfo("message 1")],
     [r \in {"rev1", "rev2"} |-> RevisionInfo(IF r = "rev1" THEN "message 1" ELSE "message 2")]}

ReviewerMaps ==
    {EmptyMap,
     [st \in {"REVIEWER"} |-> <<NamedAccount("alice", "Alice")>>],
     [st \in {"REVIEWER", "CC"} |->
        IF st = "CC" THEN <<NamedAccount("", "Carol")>> ELSE <<NamedAccount("", "Dave")>>]}

\* the message histories of up to n messages
RECURSIVE MessageHistories(_)
MessageHistories(n) ==
    IF n = 0 THEN {<<>>}
    ELSE MessageHistories(n - 1) \cup
         {Append(ms, [Author |-> a]) :
             ms \in {h \in MessageHistories(n - 1) : Len(h) = n - 1}, a \in MessageAuthors}

----------------------------------------------------------------------------
(* Return values *)

NoSummary == Nil
NoError == Nil

\* the errors Client.Call returns: a CallError (a status other than 200) or an error
\* of the transport or of the decoding
CallErrors == {[msg |-> "CallError", wraps |-> NoError],
               [msg |-> "HTTP request failed", wraps |-> NoError]}

\* (mutant) the collaborator's error is left out of the returned error
Errorf_NotWrapped(msg, e) == [msg |-> msg, wraps |-> NoError]

\* fmt.Errorf(msg + ": %w", e) of lines 59 and 103
Errorf(msg, e) == [msg |-> msg, wraps |-> e]

\* the decimal digits of a natural number
Digit(d) == <<"0", "1", "2", "3", "4", "5", "6", "7", "8", "9">>[d + 1]

\* strconv.Itoa of line 85, and %d of line 50, of a number that is not negative
RECURSIVE Itoa(_)
Itoa(n) == IF n < 10 THEN <<Digit(n)>> ELSE Append(Itoa(n \div 10), Digit(n % 10))

\* Timestamp.Time: the conversion of the type, the instant is the same
Time(ts) == ts

\* lines 62-68
commitMessage(c) ==
    IF Cardinality(DOMAIN c.Revisions) = 1
    THEN c.Revisions[CHOOSE r \in DOMAIN c.Revisions : TRUE].Commit.Message
    ELSE ""

\* line 76 dereferences the Author of every message
NilAuthor(ms) == \E i \in 1..Len(ms) : ms[i].Author = Nil

\* (mutant) every message adds its author
ActiveReviewers_NoDedup(ms) == [i \in 1..Len(ms) |-> ms[i].Author]

\* lines 73-81, over the messages from the i-th on
RECURSIVE activeReviewersFrom(_, _, _, _)
activeReviewersFrom(ms, i, out, dedup) ==
    IF i > Len(ms) THEN out
    ELSE IF ms[i].Author.Username \in dedup
         THEN activeReviewersFrom(ms, i + 1, out, dedup)
         ELSE activeReviewersFrom(ms, i + 1, Append(out, ms[i].Author),
                                  dedup \cup {ms[i].Author.Username})

\* lines 73-81, for messages that all have an Author
ActiveReviewers(ms) == activeReviewersFrom(ms, 1, <<>>, {})

\* (mutant) the fast path fills in the comment count only
FastSummary_CommentsOnly(c) ==
    [ChangeID |-> "", Project |-> "", Branch |-> "", Subject |-> "",
     LatestCommitMessage |-> "", Created |-> 0, Updated |-> 0, Submitted |-> 0,
     Comments |-> c.TotalCommentCount, UnresolvedComments |-> 0,
     AllReviewers |-> <<>>, ActiveReviewers |-> <<>>, CCed |-> <<>>, Threads |-> <<>>]

\* lines 84-98: the Summary of the fast path; its Threads stay the nil slice
FastSummary(c) ==
    [ChangeID |-> Itoa(c.Number),
     Project |-> c.Project,
     Branch |-> c.Branch,
     Subject |-> c.Subject,
     LatestCommitMessage |-> commitMessage(c),
     Created |-> Time(c.Created),
     Updated |-> Time(c.Updated),
     Submitted |-> Time(c.Submitted),
     Comments |-> c.TotalCommentCount,
     UnresolvedComments |-> c.UnresolvedCommentCount,
     AllReviewers |-> MapGetSlice(c.Reviewers, "REVIEWER"),
     ActiveReviewers |-> ActiveReviewers(c.Messages),
     CCed |-> MapGetSlice(c.Reviewers, "CC"),
     Threads |-> <<>>]

\* lines 154-169: the Summary of the slow path, before its Threads are appended
Summary(c, ts) ==
    [ChangeID |-> Itoa(c.Number),
     Project |-> c.Project,
     Branch |-> c.Branch,
     Subject |-> c.Subject,
     LatestCommitMessage |-> commitMessage(c),
     AllReviewers |-> MapGetSlice(c.Reviewers, "REVIEWER"),
     ActiveReviewers |-> ActiveReviewers(c.Messages),
     CCed |-> MapGetSlice(c.Reviewers, "CC"),
     Created |-> Time(c.Created),
     Updated |-> Time(c.Updated),
     Submitted |-> Time(c.Submitted),
     Comments |-> c.TotalCommentCount,
     UnresolvedComments |-> c.UnresolvedCommentCount,
     Threads |-> ts]

\* (mutant) Line and PatchSet are taken from each other
Thread_LineAndPatchSetSwapped(uc, as) ==
    [Path |-> uc.Path, Line |-> uc.PatchSet, PatchSet |-> uc.Line, Authors |-> as,
     Message |-> uc.Message, LastComment |-> uc]

\* lines 172-180; the pointer s is the Summary the Thread is appended to
Thread(uc, as) ==
    [Path |-> uc.Path, Line |-> uc.Line, PatchSet |-> uc.PatchSet, Authors |-> as,
     Message |-> uc.Message, LastComment |-> uc]

\* fmt.Sprintf of line 50 for the Thread t of the Summary sm
URL(sm, t) ==
    <<"/c/">> \o <<sm.Project>> \o <<"/+/">> \o sm.ChangeID \o <<"/">>
        \o Itoa(t.PatchSet) \o <<"/">> \o <<t.Path>> \o <<"#">> \o Itoa(t.Line)

----------------------------------------------------------------------------
\* Summarise is entered: nothing fetched, no locals yet
Entered ==
    /\ pc = "GetChange"
    /\ calls = <<>>
    /\ ch = Nil
    /\ comments = EmptyMap
    /\ todo = {}
    /\ path = NoPath
    /\ idx = 0
    /\ threads = EmptyMap
    /\ authors = EmptyMap
    /\ ucs = <<>>
    /\ ret = Nil
    /\ callErr = NoError

\* no second invocation
NoOther == Nil

InitChain ==
    /\ \E c \in UnresolvedCounts : \E n \in 0..MaxComments :
       \E k \in SplitPoints(n) : \E f \in ChainChoices(n) :
           /\ Consistent(c, f, n)
           /\ remote = [change |-> ChangeInfo(c), comments |-> SplitComments(f, n, k)]
    /\ Entered
    /\ first = Nil
    /\ input = Nil
    /\ output = Nil
    /\ other = NoOther

\* a change with any message history, revisions, reviewers and number, and with one
\* unresolved comment when it counts one
InitMeta ==
    /\ \E c \in UnresolvedCounts : \E ms \in MessageHistories(MaxMessages) :
       \E rv \in RevisionMaps : \E rw \in ReviewerMaps : \E nr \in ChangeNumbers :
           remote = [change |-> [ChangeInfo(c) EXCEPT !.Messages = ms, !.Revisions = rv,
                                                     !.Reviewers = rw, !.Number = nr],
                     comments |-> IF c = 0 THEN EmptyMap
                                  ELSE SplitComments(<<[InReplyTo |-> NoID, Author |-> "alice",
                                                        Unresolved |-> TRUE, Updated |-> 1,
                                                        Path |-> NoPath]>>, 1, 1)]
    /\ Entered
    /\ first = Nil
    /\ input = Nil
    /\ output = Nil
    /\ other = NoOther

InitPath ==
    /\ \E c \in UnresolvedCounts : \E n \in 0..MaxComments :
       \E k \in SplitPoints(n) : \E f \in PathChoices(n) :
           /\ Consistent(c, f, n)
           /\ remote = [change |-> ChangeInfo(c), comments |-> SplitComments(f, n, k)]
    /\ Entered
    /\ first = Nil
    /\ input = Nil
    /\ output = Nil
    /\ other = NoOther

\* the locals of the invocation that runs
Locals ==
    [pc |-> pc, calls |-> calls, ch |-> ch, comments |-> comments, todo |-> todo,
     path |-> path, idx |-> idx, threads |-> threads, authors |-> authors, ucs |-> ucs,
     ret |-> ret, callErr |-> callErr]

\* two invocations are entered, against the same remote state
InitPair ==
    /\ \E c \in UnresolvedCounts : \E n \in 0..PairComments :
       \E k \in SplitPoints(n) : \E f \in ChainChoices(n) :
           /\ Consistent(c, f, n)
           /\ remote = [change |-> ChangeInfo(c), comments |-> SplitComments(f, n, k)]
    /\ Entered
    /\ first = Nil
    /\ input = Nil
    /\ output = Nil
    /\ other = Locals

InitTimed ==
    /\ \E c \in UnresolvedCounts : \E n \in 0..MaxComments :
       \E k \in SplitPoints(n) : \E f \in TimedChoices(n) :
           /\ Consistent(c, f, n)
           /\ remote = [change |-> ChangeInfo(c), comments |-> SplitComments(f, n, k)]
    /\ Entered
    /\ first = Nil
    /\ input = Nil
    /\ output = Nil
    /\ other = NoOther

Return(s, err) ==
    /\ pc' = "done"
    /\ ret' = [s |-> s, err |-> err]

\* (mutant) the error of GetChange is ignored and the comments are fetched all the same
GetChangeFails_ErrorIgnored ==
    /\ pc = "GetChange"
    /\ calls' = Append(calls, "GetChange")
    /\ callErr' \in CallErrors
    /\ pc' = "ListChangeComments"
    /\ UNCHANGED <<remote, ch, ret, comments, todo, path, idx, threads, authors, ucs, first, other, input, output>>

\* lines 57-60: the metadata fetch fails
GetChangeFails ==
    /\ pc = "GetChange"
    /\ calls' = Append(calls, "GetChange")
    /\ \E e \in CallErrors :
        /\ callErr' = e
        /\ Return(NoSummary, Errorf("could not get change", e))
    /\ UNCHANGED <<remote, ch, comments, todo, path, idx, threads, authors, ucs, first, other, input, output>>

\* (mutant) the unresolved count is not looked at: the comments are always fetched
GetChange_NoFastPath ==
    /\ pc = "GetChange"
    /\ calls' = Append(calls, "GetChange")
    /\ callErr' = NoError
    /\ ch' = remote.change
    /\ pc' = "ListChangeComments"
    /\ UNCHANGED <<remote, ret, comments, todo, path, idx, threads, authors, ucs, first, other, input, output>>

\* lines 57-99: the metadata fetch succeeds; a message without Author ends the
\* program with a nil pointer dereference at line 76, a count of zero returns at once
GetChange ==
    /\ pc = "GetChange"
    /\ calls' = Append(calls, "GetChange")
    /\ callErr' = NoError
    /\ ch' = remote.change
    /\ IF NilAuthor(ch'.Messages)
       THEN pc' = "panic" /\ UNCHANGED ret
       ELSE IF ch'.UnresolvedCommentCount = 0
            THEN Return(FastSummary(ch'), NoError)
            ELSE pc' = "ListChangeComments" /\ UNCHANGED ret
    /\ UNCHANGED <<remote, comments, todo, path, idx, threads, authors, ucs, first, other, input, output>>

\* lines 101-104: the comments fetch fails
ListChangeCommentsFails ==
    /\ pc = "ListChangeComments"
    /\ calls' = Append(calls, "ListChangeComments")
    /\ \E e \in CallErrors :
        /\ callErr' = e
        /\ Return(NoSummary, Errorf("could not list change comments", e))
    /\ UNCHANGED <<remote, ch, comments, todo, path, idx, threads, authors, ucs, first, other, input, output>>

\* lines 101-107: the comments fetch succeeds; the two maps are made
ListChangeComments ==
    /\ pc = "ListChangeComments"
    /\ calls' = Append(calls, "ListChangeComments")
    /\ callErr' = NoError
    /\ comments' = remote.comments
    /\ todo' = DOMAIN comments'
    /\ path' = NoPath
    /\ idx' = 0
    /\ threads' = EmptyMap
    /\ authors' = EmptyMap
    /\ pc' = "range"
    /\ UNCHANGED <<remote, ch, ucs, ret, first, other, input, output>>

\* lines 108-109: the inner loop is not running, or has used up comments[path]
PathDone == IF path = NoPath THEN TRUE ELSE idx > Len(comments[path])

\* lines 108-109: the places the loops can be at next: the next comment of
\* comments[path], or the first comment of a key not yet visited (a Go map is
\* ranged over in an unspecified order)
NextPlaces ==
    IF ~PathDone THEN {<<path, idx>>}
    ELSE {<<p, 1>> : p \in todo}

\* (mutant) the Path of every comment is overwritten by the key
WithPath_KeyAlways(c, p) == [c EXCEPT !.Path = p]

\* lines 110-112
WithPath(c, p) == IF c.Path = NoPath THEN [c EXCEPT !.Path = p] ELSE c

\* (mutant) the authors of the comment replied to are forgotten
PriorAuthors_Forgotten(as, c) == <<>>

\* lines 113-120: the authors of the comment c replies to
PriorAuthors(as, c) == IF c.InReplyTo # NoID THEN MapGetSlice(as, c.InReplyTo) ELSE <<>>

\* (mutant) a reply to a comment without an entry gets no entry
AuthorsAfter_OrphanDropped(as, c) ==
    IF c.InReplyTo # NoID /\ c.InReplyTo \notin DOMAIN as THEN as
    ELSE MapPut(MapDelete(as, c.InReplyTo), c.ID, Append(PriorAuthors(as, c), c.Author))

\* (mutant) the entry of the comment replied to is kept
AuthorsAfter_ParentKept(as, c) ==
    MapPut(as, c.ID, Append(PriorAuthors(as, c), c.Author))

\* (mutant) the author of the comment is put before the authors it takes over
AuthorsAfter_Prepended(as, c) ==
    MapPut(MapDelete(as, c.InReplyTo), c.ID, <<c.Author>> \o PriorAuthors(as, c))

\* lines 115-123 on the authors map
AuthorsAfter(as, c) ==
    LET rekeyed == IF c.InReplyTo # NoID THEN MapDelete(as, c.InReplyTo) ELSE as
    IN MapPut(rekeyed, c.ID, Append(PriorAuthors(as, c), c.Author))

\* (mutant) resolved comments are recorded too
ThreadsAfter_AllRecorded(ts, c) ==
    LET rekeyed == IF c.InReplyTo # NoID THEN MapDelete(ts, c.InReplyTo) ELSE ts
    IN MapPut(rekeyed, c.ID, c)

\* (mutant) the comment replied to stays a key of threads
ThreadsAfter_ParentKept(ts, c) ==
    IF c.Unresolved = TRUE THEN MapPut(ts, c.ID, c) ELSE ts

\* (mutant) threads is made anew for every path: the tips of other paths are dropped
ThreadsAfter_MadePerPath(ts, c) ==
    LET kept == [k \in {x \in DOMAIN ts : ts[x].Path = c.Path} |-> ts[k]]
        rekeyed == IF c.InReplyTo # NoID THEN MapDelete(kept, c.InReplyTo) ELSE kept
    IN IF c.Unresolved = TRUE THEN MapPut(rekeyed, c.ID, c) ELSE rekeyed

\* lines 115-117 and 125-128 on the threads map
ThreadsAfter(ts, c) ==
    LET rekeyed == IF c.InReplyTo # NoID THEN MapDelete(ts, c.InReplyTo) ELSE ts
    IN IF c.Unresolved = TRUE THEN MapPut(rekeyed, c.ID, c) ELSE rekeyed

\* lines 109-129: the body of the inner loop, for one comment
ProcessComment ==
    /\ pc = "range"
    /\ \E pl \in NextPlaces :
        LET c == WithPath(comments[pl[1]][pl[2]], pl[1])
        IN /\ authors' = AuthorsAfter(authors, c)
           /\ threads' = ThreadsAfter(threads, c)
           /\ path' = pl[1]
           /\ todo' = todo \ {pl[1]}
           /\ idx' = pl[2] + 1
    /\ UNCHANGED <<remote, pc, calls, ch, comments, ucs, ret, first, callErr, other, input, output>>

\* sort.Slice with the less of line 138: no element is before one that precedes it
IsSortedByUpdated(s) ==
    \A i, j \in 1..Len(s) : i < j => ~(s[j].Updated < s[i].Updated)

\* the slices holding each value of the map m once
ValueOrders(m) ==
    {s \in [1..Cardinality(DOMAIN m) -> {m[k] : k \in DOMAIN m}] :
        \A k \in DOMAIN m : \E i \in 1..Len(s) : s[i] = m[k]}

\* (mutant) the values of threads are left in map order
SortedTips_MapOrder(ts) == ValueOrders(ts)

\* lines 132-139: the values of threads in map order, then sorted (not stably)
SortedTips(ts) == {s \in ValueOrders(ts) : IsSortedByUpdated(s)}

SortThreads ==
    /\ pc = "range"
    /\ NextPlaces = {}
    /\ ucs' \in SortedTips(threads)
    /\ pc' = "dedup"
    /\ UNCHANGED <<remote, calls, ch, comments, todo, path, idx, threads, authors, ret, first, callErr, other, input, output>>

\* lines 142-150: the first account of each Username, in order
RECURSIVE DedupFrom(_, _)
DedupFrom(as, seen) ==
    IF as = <<>> THEN <<>>
    ELSE IF Head(as).Username \in seen THEN DedupFrom(Tail(as), seen)
    ELSE <<Head(as)>> \o DedupFrom(Tail(as), seen \cup {Head(as).Username})

Dedup(as) == DedupFrom(as, {})

\* lines 141-152: out is computed and line 151 stores as
DedupStored(as) == LET out == Dedup(as) IN as

DedupAuthors ==
    /\ pc = "dedup"
    /\ authors' = [k \in DOMAIN authors |-> DedupStored(authors[k])]
    /\ pc' = "build"
    /\ UNCHANGED <<remote, calls, ch, comments, todo, path, idx, threads, ucs, ret, first, callErr, other, input, output>>

\* lines 171-181
Threads(us, as) == [i \in 1..Len(us) |-> Thread(us[i], MapGetSlice(as, us[i].ID))]

\* lines 154-182
BuildSummary ==
    /\ pc = "build"
    /\ pc' = "done"
    /\ ret' = [s |-> Summary(ch, Threads(ucs, authors)), err |-> NoError]
    /\ UNCHANGED <<remote, calls, ch, comments, todo, path, idx, threads, authors, ucs, first, callErr, other, input, output>>

Next ==
    \/ GetChangeFails
    \/ GetChange
    \/ ListChangeCommentsFails
    \/ ListChangeComments
    \/ ProcessComment
    \/ SortThreads
    \/ DedupAuthors
    \/ BuildSummary

\* Summarise has returned a Summary and is called again; the remote service has
\* not changed
Rerun ==
    /\ pc = "done"
    /\ first = Nil
    /\ ret.err = NoError
    /\ first' = ret
    /\ pc' = "GetChange"
    /\ calls' = <<>>
    /\ ch' = Nil
    /\ comments' = EmptyMap
    /\ todo' = {}
    /\ path' = NoPath
    /\ idx' = 0
    /\ threads' = EmptyMap
    /\ authors' = EmptyMap
    /\ ucs' = <<>>
    /\ ret' = Nil
    /\ callErr' = NoError
    /\ UNCHANGED <<remote, other, input, output>>

\* one invocation, over review histories that differ in reply structure and authors
Spec == InitChain /\ [][Next]_vars

\* (mutant) the two maps are not locals: both invocations use the same two maps
Switch_SharedMaps ==
    /\ other # NoOther
    /\ other' = Locals
    /\ pc' = other.pc
    /\ calls' = other.calls
    /\ ch' = other.ch
    /\ comments' = other.comments
    /\ todo' = other.todo
    /\ path' = other.path
    /\ idx' = other.idx
    /\ ucs' = other.ucs
    /\ ret' = other.ret
    /\ callErr' = other.callErr
    /\ UNCHANGED <<remote, first, threads, authors, input, output>>

\* the invocation that runs is suspended and the other one goes on: every variable
\* Summarise declares (lines 55-171) belongs to one invocation
Switch ==
    /\ other # NoOther
    /\ other' = Locals
    /\ pc' = other.pc
    /\ calls' = other.calls
    /\ ch' = other.ch
    /\ comments' = other.comments
    /\ todo' = other.todo
    /\ path' = other.path
    /\ idx' = other.idx
    /\ threads' = other.threads
    /\ authors' = other.authors
    /\ ucs' = other.ucs
    /\ ret' = other.ret
    /\ callErr' = other.callErr
    /\ UNCHANGED <<remote, first, input, output>>

\* two invocations at once against the same remote state, interleaved in any way
SpecPair == InitPair /\ [][Next \/ Switch]_vars

\* one invocation, over changes that differ in their metadata
SpecMeta == InitMeta /\ [][Next]_vars

\* one invocation, over review histories that differ in reply structure and in the
\* paths the comments carry
SpecPath == InitPath /\ [][Next]_vars

\* one invocation, over review histories that differ in reply structure and timestamps
SpecSort == InitTimed /\ [][Next]_vars

\* two invocations in a row against the same remote state
SpecRerun == InitTimed /\ [][Next \/ Rerun]_vars

----------------------------------------------------------------------------
(* The fetched comment collection, as the properties speak of it *)

\* Summarise took the slow path and returned a Summary
Summarised == pc = "done" /\ ret.err = NoError /\ Len(calls) = 2

Places == UNION {{<<p, i>> : i \in 1..Len(comments[p])} : p \in DOMAIN comments}

\* the comments of the collection, as the loop sees them
Listed == {WithPath(comments[pl[1]][pl[2]], pl[1]) : pl \in Places}

CommentIDs == {c.ID : c \in Listed}

\* the comment with this ID
Comment(id) == CHOOSE c \in Listed : c.ID = id

Parent(id) == Comment(id).InReplyTo

PlaceOf(id) == CHOOSE pl \in Places : comments[pl[1]][pl[2]].ID = id

\* i is supplied before j in the list of the same path
Precedes(i, j) == PlaceOf(i)[1] = PlaceOf(j)[1] /\ PlaceOf(i)[2] < PlaceOf(j)[2]

\* the loop has processed the comment with this ID
Processed(id) ==
    /\ pc \in {"range", "dedup", "build", "done"}
    /\ id \in CommentIDs
    /\ PlaceOf(id)[1] \notin todo
    /\ PlaceOf(id)[1] = path => PlaceOf(id)[2] < idx

Linked(i, j) == Parent(i) = j \/ Parent(j) = i

RECURSIVE Connected(_)
Connected(S) ==
    LET T == S \cup {j \in CommentIDs : \E i \in S : Linked(i, j)}
    IN IF T = S THEN S ELSE Connected(T)

\* the chain of a comment: the comments transitively connected to it by InReplyTo
Chain(id) == Connected({id})

Chains == {Chain(id) : id \in CommentIDs}

\* every reply is supplied after the comment it replies to
WellOrdered ==
    \A i \in CommentIDs :
        Parent(i) # NoID => Parent(i) \in CommentIDs /\ Precedes(Parent(i), i)

\* no two comments reply to the same comment
NoSiblings ==
    \A i, j \in CommentIDs : Parent(i) # NoID /\ Parent(i) = Parent(j) => i = j

\* the most recent comment of a chain of a well-ordered collection
MostRecent(C) == CHOOSE i \in C : \A j \in C : j = i \/ Precedes(j, i)

OpenChains == {C \in Chains : Comment(MostRecent(C)).Unresolved}

TipIDs == {ret.s.Threads[k].LastComment.ID : k \in 1..Len(ret.s.Threads)}

\* the Threads of the Summary whose tip belongs to the chain C
ThreadsOf(C) == {k \in 1..Len(ret.s.Threads) : ret.s.Threads[k].LastComment.ID \in C}

Usernames_(as) == [i \in 1..Len(as) |-> as[i].Username]

NoDuplicates(as) == \A i, j \in 1..Len(as) : as[i].Username = as[j].Username => i = j

\* the authors of the comments of C, in the order the comments are supplied
RECURSIVE AuthorsInOrder(_)
AuthorsInOrder(C) ==
    IF C = {} THEN <<>>
    ELSE LET l == MostRecent(C)
         IN Append(AuthorsInOrder(C \ {l}), Comment(l).Author)

----------------------------------------------------------------------------
(* Properties *)

\* C1: for a collection with unique IDs in which every reply follows its parent, the
\* Summary holds exactly one Thread per chain whose most recent comment is
\* unresolved, none for any other chain, and its LastComment is that comment.
C1_OneThreadPerOpenChain ==
    (Summarised /\ WellOrdered) =>
        /\ \A C \in OpenChains :
              /\ Cardinality(ThreadsOf(C)) = 1
              /\ \A k \in ThreadsOf(C) :
                    ret.s.Threads[k].LastComment = Comment(MostRecent(C))
        /\ \A C \in Chains \ OpenChains : ThreadsOf(C) = {}

\* C2: while comments are processed the threads map holds at most one tip per chain,
\* and the Summary never holds two Threads of one chain, also when two comments
\* reply to the same comment (stated for collections in which every reply follows
\* its parent).
C2_OneTipPerChain ==
    WellOrdered =>
        /\ \A i, j \in DOMAIN threads : j \in Chain(i) => i = j
        /\ Summarised => \A C \in Chains : Cardinality(ThreadsOf(C)) <= 1

\* C3: the Authors of a Thread hold no Username twice and are in the order of first
\* occurrence in the chain's comments (stated for chains in which every reply
\* follows its parent and no comment has two replies).
C3_AuthorsDeduplicated ==
    (Summarised /\ WellOrdered /\ NoSiblings) =>
        \A k \in 1..Len(ret.s.Threads) :
            LET t == ret.s.Threads[k]
            IN /\ NoDuplicates(t.Authors)
               /\ t.Authors = Dedup(AuthorsInOrder(Chain(t.LastComment.ID)))

\* C4: the tip of every Thread of a Summary is unresolved; so is every value of the
\* threads map and of ucs on the way.
C4_TipsUnresolved ==
    /\ \A k \in DOMAIN threads : threads[k].Unresolved = TRUE
    /\ \A i \in 1..Len(ucs) : ucs[i].Unresolved = TRUE
    /\ (pc = "done" /\ ret.err = NoError) =>
          \A k \in 1..Len(ret.s.Threads) : ret.s.Threads[k].LastComment.Unresolved = TRUE

\* a Summary with a Thread, from a collection that also holds a resolved comment
C4_Witness ==
    /\ Summarised
    /\ Len(ret.s.Threads) >= 1
    /\ \E i \in CommentIDs : ~Comment(i).Unresolved

\* the chain of comment a consists of the root a followed by its reply b
IsPair(a, b) ==
    /\ b.InReplyTo = a.ID /\ a.InReplyTo = NoID /\ a.ID # b.ID
    /\ Precedes(a.ID, b.ID)
    /\ Chain(a.ID) = {a.ID, b.ID}

\* C5: a chain of root A (unresolved) followed by reply B (unresolved) yields exactly
\* one Thread, with tip B and Authors [A.author, B.author] deduplicated in order.
C5_UnresolvedReply ==
    Summarised =>
        \A a, b \in Listed :
            (a.Unresolved /\ b.Unresolved /\ IsPair(a, b)) =>
                /\ Cardinality(ThreadsOf({a.ID, b.ID})) = 1
                /\ \A k \in ThreadsOf({a.ID, b.ID}) :
                      /\ ret.s.Threads[k].LastComment = b
                      /\ ret.s.Threads[k].Authors = Dedup(<<a.Author, b.Author>>)

\* C6: a chain of A (unresolved) followed by reply B (resolved) yields no Thread:
\* once B is processed neither A nor B is a key of threads.
C6_ResolvedReply ==
    LET L == Listed
    IN \A b \in L : (~b.Unresolved /\ b.InReplyTo # NoID) =>
         \A a \in L : (a.Unresolved /\ IsPair(a, b)) =>
            /\ Processed(b.ID) => a.ID \notin DOMAIN threads /\ b.ID \notin DOMAIN threads
            /\ Summarised => ThreadsOf({a.ID, b.ID}) = {}

\* a Summary of a collection with such a chain and with a Thread of another chain
C6_Witness ==
    /\ Summarised
    /\ Len(ret.s.Threads) >= 1
    /\ \E a, b \in Listed : a.Unresolved /\ ~b.Unresolved /\ IsPair(a, b)

\* the chain of comment a consists of a, its reply b and b's reply c, supplied in
\* that order
IsTriple(a, b, c) ==
    /\ c.InReplyTo = b.ID /\ b.InReplyTo = a.ID /\ a.InReplyTo = NoID
    /\ Cardinality({a.ID, b.ID, c.ID}) = 3
    /\ Precedes(a.ID, b.ID) /\ Precedes(b.ID, c.ID)
    /\ Chain(a.ID) = {a.ID, b.ID, c.ID}

\* C7: a chain A (unresolved), B (resolved, replying to A), C (unresolved, replying to
\* B) yields exactly one Thread, with tip C and Authors holding the authors of A, B
\* and C: only the flag of the last comment decides.
C7_Reopened ==
    Summarised =>
        \A a, b, c \in Listed :
            (a.Unresolved /\ ~b.Unresolved /\ c.Unresolved /\ IsTriple(a, b, c)) =>
                /\ Cardinality(ThreadsOf({a.ID, b.ID, c.ID})) = 1
                /\ \A k \in ThreadsOf({a.ID, b.ID, c.ID}) :
                      /\ ret.s.Threads[k].LastComment = c
                      /\ \A x \in {a, b, c} :
                            \E i \in 1..Len(ret.s.Threads[k].Authors) :
                                ret.s.Threads[k].Authors[i] = x.Author

\* a Summary of a collection that holds such a chain, B's author not being C's
C7_Witness ==
    /\ Summarised
    /\ \E a, b, c \in Listed :
          /\ a.Unresolved /\ ~b.Unresolved /\ c.Unresolved /\ IsTriple(a, b, c)
          /\ b.Author # c.Author

\* C8: the Threads of a Summary are in non-decreasing order of their tips' Updated.
C8_SortedByUpdated ==
    (pc = "done" /\ ret.err = NoError) =>
        \A i, j \in 1..Len(ret.s.Threads) :
            i < j => ret.s.Threads[i].LastComment.Updated
                        <= ret.s.Threads[j].LastComment.Updated

\* a Summary whose Threads are not in the order their tips were processed in: the
\* first Thread's tip was supplied after the second's, in the same path
C8_Witness ==
    /\ Summarised
    /\ Len(ret.s.Threads) >= 2
    /\ Precedes(ret.s.Threads[2].LastComment.ID, ret.s.Threads[1].LastComment.ID)
    /\ ret.s.Threads[1].LastComment.Updated < ret.s.Threads[2].LastComment.Updated

\* C9: Summarise run again against the same remote state returns the same Summary,
\* Threads of equal Updated in the same order (stated for collections in which
\* every reply follows its parent in the list of the same path).
C9_SameSummaryAgain ==
    (Summarised /\ first # Nil /\ WellOrdered) => ret = first

\* C10: when the metadata reports no unresolved comment, Summarise has made the one
\* call GetChange and has returned a Summary without Threads.
C10_FastPath ==
    (ch # Nil /\ ch.UnresolvedCommentCount = 0) =>
        /\ pc = "done"
        /\ calls = <<"GetChange">>
        /\ ret.err = NoError
        /\ ret.s.Threads = <<>>

\* the fast path was taken although the change has comments
C10_Witness ==
    /\ pc = "done"
    /\ ch # Nil /\ ch.UnresolvedCommentCount = 0
    /\ DOMAIN remote.comments # {}

\* C11: when a fetch fails Summarise returns no Summary and an error that names the
\* operation and wraps the collaborator's error; an error never comes with a Summary.
C11_FetchFailure ==
    /\ callErr # NoError =>
          /\ pc = "done"
          /\ ret.s = NoSummary
          /\ ret.err.wraps = callErr
          /\ ret.err.msg = IF calls[Len(calls)] = "GetChange" THEN "could not get change"
                           ELSE "could not list change comments"
    /\ (pc = "done" /\ ret.err # NoError) => ret.s = NoSummary /\ callErr # NoError

\* the comments fetch has failed after the metadata was fetched
C11_Witness ==
    /\ pc = "done"
    /\ callErr # NoError
    /\ callErr.msg = "CallError"
    /\ calls = <<"GetChange", "ListChangeComments">>
    /\ ch # Nil

\* C12: at most two calls are made, GetChange first and ListChangeComments only after
\* GetChange succeeded with a non-zero unresolved count; no call is repeated and
\* after a failed call no further call is made.
C12_CallSequence ==
    /\ [](/\ calls \in {<<>>, <<"GetChange">>, <<"GetChange", "ListChangeComments">>}
          /\ Len(calls) = 2 => ch # Nil /\ ch.UnresolvedCommentCount # 0)
    /\ [][callErr # NoError => calls' = calls]_vars

\* both calls were made and the second failed
C12_Witness ==
    /\ Len(calls) = 2
    /\ callErr # NoError
    /\ pc = "done"

\* the step is one pass of the inner loop of lines 109-129
LoopStep == pc = "range" /\ pc' = "range" /\ <<path, idx>> # <<path', idx'>>

\* the comment that pass processes
LoopComment == WithPath(comments[path'][idx' - 1], path')

\* every entry of the map m is an entry of the map n
Kept(m, n) == \A k \in DOMAIN m : k \in DOMAIN n /\ n[k] = m[k]

\* C13: a comment whose InReplyTo names an ID that no earlier comment has is processed
\* as a new root: its participants are exactly its own author and no existing tip or
\* participants entry changes.
C13_UnknownParentIsRoot ==
    [][LoopStep =>
        LET c == LoopComment
        IN (c.InReplyTo # NoID /\ ~Processed(c.InReplyTo)) =>
              /\ c.ID \in DOMAIN authors'
              /\ authors'[c.ID] = <<c.Author>>
              /\ Kept(authors, authors')
              /\ Kept(threads, threads')]_vars

\* a comment naming an ID that no comment has was processed next to an older entry
C13_Witness ==
    /\ pc = "range"
    /\ \E c \in Listed :
          /\ Processed(c.ID)
          /\ c.InReplyTo # NoID
          /\ c.InReplyTo \notin CommentIDs
          /\ c.ID \in DOMAIN authors
          /\ authors[c.ID] = <<c.Author>>
          /\ DOMAIN authors # {c.ID}
          /\ DOMAIN threads \ {c.ID} # {}

\* C17: processing a comment c that replies to p leaves neither map with an entry
\* for p, makes the participants of c.ID the earlier participants of p (none if p
\* had no entry) followed by the author of c, and leaves the entries of every ID
\* other than p and c.ID as they were.
C17_Rekeyed ==
    [][LoopStep =>
        LET c == LoopComment
            p == c.InReplyTo
            others(m, n) == (DOMAIN m \cup DOMAIN n) \ {p, c.ID}
            same(m, n) == \A k \in others(m, n) :
                             k \in DOMAIN m /\ k \in DOMAIN n /\ m[k] = n[k]
        IN p # NoID =>
              /\ p \notin DOMAIN authors'
              /\ p \notin DOMAIN threads'
              /\ c.ID \in DOMAIN authors'
              /\ authors'[c.ID] =
                    Append(IF p \in DOMAIN authors THEN authors[p] ELSE <<>>, c.Author)
              /\ same(authors, authors')
              /\ same(threads, threads')]_vars

\* a reply has taken over the participants of its parent, next to another entry
C17_Witness ==
    /\ pc = "range"
    /\ \E c \in Listed :
          /\ c.ID \in DOMAIN authors
          /\ Len(authors[c.ID]) >= 2
          /\ c.InReplyTo \notin DOMAIN authors
          /\ c.InReplyTo \notin DOMAIN threads
          /\ DOMAIN authors # {c.ID}

\* the comments on the InReplyTo path from the comment id back to its root
RECURSIVE Ancestors(_)
Ancestors(id) ==
    IF Parent(id) = NoID \/ Parent(id) \notin CommentIDs THEN {id}
    ELSE {id} \cup Ancestors(Parent(id))

\* C20: when every reply follows its parent, the Authors of every Thread hold the
\* author of every comment on the InReplyTo path from its tip back to the root,
\* also when several comments reply to the same parent.
C20_AncestorsAreAuthors ==
    (Summarised /\ WellOrdered) =>
        \A k \in 1..Len(ret.s.Threads) :
            LET t == ret.s.Threads[k]
            IN \A x \in Ancestors(t.LastComment.ID) :
                  \E i \in 1..Len(t.Authors) :
                      t.Authors[i].Username = Comment(x).Author.Username

\* Summarise has returned a Summary, on either path
Returned == pc = "done" /\ ret.err = NoError

\* the first message of the history ms written by the account with username u
FirstBy(ms, u) ==
    CHOOSE i \in 1..Len(ms) :
        /\ ms[i].Author.Username = u
        /\ \A j \in 1..(i - 1) : ms[j].Author.Username # u

\* C14: the ActiveReviewers of a returned Summary hold every Username among the
\* authors of the messages, each once, as the Author of the first message of that
\* Username, in the order of those first messages.
C14_ActiveReviewers ==
    Returned =>
        LET ar == ret.s.ActiveReviewers
            ms == ch.Messages
        IN /\ \A i \in 1..Len(ms) :
                 \E k \in 1..Len(ar) : ar[k].Username = ms[i].Author.Username
           /\ \A k \in 1..Len(ar) :
                 /\ \E i \in 1..Len(ms) : ms[i].Author.Username = ar[k].Username
                 /\ ar[k] = ms[FirstBy(ms, ar[k].Username)].Author
           /\ \A k, l \in 1..Len(ar) :
                 k < l => FirstBy(ms, ar[k].Username) < FirstBy(ms, ar[l].Username)

\* two accounts of one Username wrote the first and the last of three messages
C14_Witness ==
    /\ Returned
    /\ Len(ch.Messages) = 3
    /\ ch.Messages[1].Author.Username = ch.Messages[3].Author.Username
    /\ ch.Messages[1].Author # ch.Messages[3].Author
    /\ Len(ret.s.ActiveReviewers) = 2

\* C16: the Path of every Thread is the Path its tip was supplied with or, when
\* that is empty, the key of the collection the tip was supplied under.
C16_ThreadPath ==
    Summarised =>
        \A k \in 1..Len(ret.s.Threads) :
            LET t == ret.s.Threads[k]
                pl == PlaceOf(t.LastComment.ID)
                supplied == comments[pl[1]][pl[2]]
            IN /\ t.Path = IF supplied.Path = NoPath THEN pl[1] ELSE supplied.Path
               /\ t.Path # NoPath

\* one Thread has the Path of the key and another the Path of its own comment
C16_Witness ==
    /\ Summarised
    /\ \E k, l \in 1..Len(ret.s.Threads) :
          LET pk == PlaceOf(ret.s.Threads[k].LastComment.ID)
              pl == PlaceOf(ret.s.Threads[l].LastComment.ID)
          IN /\ comments[pk[1]][pk[2]].Path = NoPath
             /\ comments[pl[1]][pl[2]].Path # NoPath
             /\ ret.s.Threads[l].Path # pl[1]

\* the fields of a Summary other than Threads
MetadataFields ==
    {"ChangeID", "Project", "Branch", "Subject", "LatestCommitMessage", "Created",
     "Updated", "Submitted", "Comments", "UnresolvedComments", "AllReviewers",
     "ActiveReviewers", "CCed"}

C19_ThreadFromTip ==
    Summarised =>
        \A k \in 1..Len(ret.s.Threads) :
            LET t == ret.s.Threads[k]
                tip == Comment(ucs[k].ID)
            IN /\ t.LastComment = tip
               /\ t.Path = tip.Path
               /\ t.Line = tip.Line
               /\ t.PatchSet = tip.PatchSet
               /\ t.Message = tip.Message
               /\ t.Authors = authors[tip.ID]
               /\ URL(ret.s, t) =
                     <<"/c/", ret.s.Project, "/+/">> \o Itoa(ch.Number) \o <<"/">>
                        \o Itoa(tip.PatchSet) \o <<"/", tip.Path, "#">> \o Itoa(tip.Line)

\* two Threads with different tips were returned
C19_Witness ==
    /\ Summarised
    /\ Len(ret.s.Threads) >= 2
    /\ ret.s.Threads[1].Line # ret.s.Threads[2].Line
    /\ ret.s.Threads[1].PatchSet # ret.s.Threads[2].PatchSet
    /\ URL(ret.s, ret.s.Threads[1]) # URL(ret.s, ret.s.Threads[2])

\* the orders in which the keys of the map cs can be ranged over
KeyOrders(cs) ==
    {ks \in [1..Cardinality(DOMAIN cs) -> DOMAIN cs] :
        \A i, j \in 1..Len(ks) : ks[i] = ks[j] => i = j}

\* the comments of cs in the order the loops meet them for the key order ks
RECURSIVE InOrder(_, _)
InOrder(cs, ks) ==
    IF ks = <<>> THEN <<>>
    ELSE [i \in 1..Len(cs[Head(ks)]) |-> WithPath(cs[Head(ks)][i], Head(ks))]
            \o InOrder(cs, Tail(ks))

\* the two maps after the loops have met the comments cq, one after the other
RECURSIVE LoopResult(_, _, _)
LoopResult(cq, ts, as) ==
    IF cq = <<>> THEN [threads |-> ts, authors |-> as]
    ELSE LoopResult(Tail(cq), ThreadsAfter(ts, Head(cq)), AuthorsAfter(as, Head(cq)))

\* the Summaries one invocation on its own can return for the remote state r
AloneSummaries(r) ==
    IF r.change.UnresolvedCommentCount = 0 THEN {FastSummary(r.change)}
    ELSE UNION {
           LET m == LoopResult(InOrder(r.comments, ks), EmptyMap, EmptyMap)
               as == [k \in DOMAIN m.authors |-> DedupStored(m.authors[k])]
           IN {Summary(r.change, Threads(us, as)) : us \in SortedTips(m.threads)}
           : ks \in KeyOrders(r.comments)}

\* C15: two invocations interleaved in any way do not interfere: the Summary each
\* of them returns is one it can return when it runs alone against the same remote
\* state.
C15_NoInterference ==
    /\ Returned => ret.s \in AloneSummaries(remote)
    /\ (other # NoOther /\ other.pc = "done" /\ other.ret.err = NoError) =>
          other.ret.s \in AloneSummaries(remote)

\* both invocations have fetched comments under two paths and returned Threads
C15_Witness ==
    /\ Summarised
    /\ other.pc = "done"
    /\ other.ret.err = NoError
    /\ Len(other.calls) = 2
    /\ Cardinality(DOMAIN remote.comments) = 2
    /\ ret.s.Threads # <<>>
    /\ other.ret.s.Threads # <<>>

\* C21: after each comment is processed every key of threads is a key of authors,
\* every entry of threads is stored under the ID of its comment and is unresolved,
\* and every entry of authors is not empty and ends with the author of the comment
\* it is keyed by.
C21_MapsAgree ==
    pc = "range" =>
        /\ DOMAIN threads \subseteq DOMAIN authors
        /\ \A k \in DOMAIN threads : threads[k].ID = k /\ threads[k].Unresolved = TRUE
        /\ \A k \in DOMAIN authors :
              /\ k \in CommentIDs
              /\ authors[k] # <<>>
              /\ authors[k][Len(authors[k])] = Comment(k).Author

\* every comment is processed; a resolved and an unresolved tip are left, one of them
\* with the authors of an earlier comment
C21_Witness ==
    /\ pc = "range"
    /\ NextPlaces = {}
    /\ DOMAIN threads # {}
    /\ DOMAIN threads # DOMAIN authors
    /\ \E k \in DOMAIN authors :
          /\ Len(authors[k]) >= 2
          /\ authors[k][1] # authors[k][2]

\* no comment replies to a comment supplied under another path
NoCrossPath ==
    \A i \in CommentIDs :
        Parent(i) \in CommentIDs => PlaceOf(Parent(i))[1] = PlaceOf(i)[1]

\* the Threads of a Summary as a set: the ID of each tip with its Authors
ThreadSet(sm) ==
    {<<sm.Threads[k].LastComment.ID, sm.Threads[k].Authors>> : k \in 1..Len(sm.Threads)}

\* the ThreadSet Summarise returns when it ranges over the keys in the order ks
ThreadSetFor(ks) ==
    LET m == LoopResult(InOrder(comments, ks), EmptyMap, EmptyMap)
    IN {<<k, DedupStored(MapGetSlice(m.authors, k))>> : k \in DOMAIN m.threads}

\* C22: when no comment replies to a comment of another path, the set of Threads
\* (tip IDs with their Authors) is the same for every order in which the paths are
\* ranged over.
C22_PathOrderIrrelevant ==
    (Summarised /\ NoCrossPath) =>
        \A ks \in KeyOrders(comments) : ThreadSet(ret.s) = ThreadSetFor(ks)

\* two paths, a Thread of each, and a reply that took over its parent's authors
C22_Witness ==
    /\ Summarised
    /\ NoCrossPath
    /\ Cardinality(DOMAIN comments) = 2
    /\ \A p \in DOMAIN comments :
          \E k \in 1..Len(ret.s.Threads) : ret.s.Threads[k].Path = p
    /\ \E k \in 1..Len(ret.s.Threads) : Len(ret.s.Threads[k].Authors) >= 2

\* C23: Summarise derives the active reviewers without ending the program, whatever
\* message history GetChange returns, a message without Author included.
C23_NoAbort == pc # "panic"

----------------------------------------------------------------------------
(* The other functions of the package: one call each, from input to output *)

\* Summarise is not called
NotSummarising ==
    /\ remote = Nil
    /\ pc = "idle"
    /\ calls = <<>>
    /\ ch = Nil
    /\ comments = EmptyMap
    /\ todo = {}
    /\ path = NoPath
    /\ idx = 0
    /\ threads = EmptyMap
    /\ authors = EmptyMap
    /\ ucs = <<>>
    /\ ret = Nil
    /\ first = Nil
    /\ callErr = NoError
    /\ other = NoOther

summariseVars ==
    <<remote, pc, calls, ch, comments, todo, path, idx, threads, authors, ucs, ret,
      first, callErr, other>>

\* a member that a JSON object does not have
Absent == [kind |-> "absent"]

JSONString(v) == [kind |-> "string", value |-> v]

\* a JSON number that is an integer of 32 bits
JSONNumber(n) == [kind |-> "number", value |-> n]

\* a JSON number that is no integer of 32 bits: a fraction or 2^31 and above
JSONOtherNumber == [kind |-> "other number"]

JSONObject == [kind |-> "object"]

\* the constants EventType... and the struct each one is the tag of
EventTypes ==
    {<<"assignee-changed", "AssigneeChanged">>,
     <<"change-abandoned", "ChangeAbandoned">>,
     <<"change-deleted", "ChangeDeleted">>,
     <<"change-merged", "ChangeMerged">>,
     <<"change-restored", "ChangeRestored">>,
     <<"comment-added", "CommentAdded">>,
     <<"dropped-output", "DroppedOutput">>,
     <<"hashtags-changed", "HashtagsChanged">>,
     <<"project-created", "ProjectCreated">>,
     <<"patchset-created", "PatchsetCreated">>,
     <<"ref-updated", "RefUpdated">>,
     <<"reviewer-added", "ReviewerAdded">>,
     <<"reviewer-deleted", "ReviewerDeleted">>,
     <<"topic-changed", "TopicChanged">>,
     <<"wip-state-changed", "WIPStateChanged">>,
     <<"private-state-changed", "PrivateStateChanged">>,
     <<"vote-deleted", "VoteDeleted">>}

KnownTags == {e[1] : e \in EventTypes}

\* the Type method of each struct of types.go
TypeOf(y) ==
    IF y.struct = "UnknownEventType" THEN y.UnknownType
    ELSE (CHOOSE e \in EventTypes : e[2] = y.struct)[1]

\* the switch of UnmarshalEvent
NewEventType(tag) ==
    IF tag \in KnownTags THEN [struct |-> (CHOOSE e \in EventTypes : e[1] = tag)[2]]
    ELSE [struct |-> "UnknownEventType", UnknownType |-> tag]

\* the texts UnmarshalEvent is called with, by what encoding/json makes of them:
\* whether the text is a JSON object at all, its members type, eventCreatedOn,
\* unknownType and data (member names match field names whatever their case), and
\* whether its other members fit the fields of the struct of its tag
EventTexts ==
    [object : BOOLEAN,
     type : {JSONString(t) : t \in KnownTags \cup {"custom-event", "Change-Merged"}}
              \cup {Absent, JSONNumber(1)},
     eventCreatedOn : {Absent, JSONNumber(0), JSONNumber(1700000000), JSONOtherNumber,
                       JSONString("2023")},
     unknownType : {Absent, JSONString("change-merged"), JSONNumber(1)},
     data : {Absent, JSONObject, JSONString("text")},
     fits : BOOLEAN]

\* the zero value of UnixTime
ZeroUnixTime == [zero |-> TRUE]

\* time.Unix(n, 0)
Unix(n) == [sec |-> n]

\* what json.Unmarshal(b, &x) of line 175 leaves in x, and the error it returns. A
\* member that is absent leaves the zero value; UnixTime.UnmarshalJSON accepts what
\* strconv.ParseInt(s, 10, 32) accepts
DecodeHeader(b) ==
    [Type |-> IF b.type.kind = "string" THEN b.type.value ELSE "",
     EventCreatedOn |-> IF b.eventCreatedOn.kind = "number"
                        THEN Unix(b.eventCreatedOn.value) ELSE ZeroUnixTime,
     err |-> IF ~b.object THEN Errorf("json: cannot unmarshal into Go value", NoError)
             ELSE IF b.type.kind \notin {"absent", "string"}
                  THEN Errorf("json: cannot unmarshal into Go struct field Type", NoError)
             ELSE IF b.eventCreatedOn.kind \notin {"absent", "number"}
                  THEN Errorf("strconv.ParseInt: parsing", NoError)
             ELSE NoError]

\* what json.Unmarshal(b, y) of line 240 leaves in y, and the error it returns. The
\* fields UnknownType and Data of UnknownEventType are exported and have no tag, so
\* the members unknownType and data of the text are decoded into them
DecodeBody(b, y) ==
    IF y.struct # "UnknownEventType"
    THEN [y |-> y,
          err |-> IF b.fits THEN NoError
                  ELSE Errorf("json: cannot unmarshal into Go struct field", NoError)]
    ELSE [y |-> IF b.unknownType.kind = "string"
                THEN [y EXCEPT !.UnknownType = b.unknownType.value] ELSE y,
          err |-> IF b.unknownType.kind \notin {"absent", "string"}
                     \/ b.data.kind \notin {"absent", "object"}
                  THEN Errorf("json: cannot unmarshal into Go struct field", NoError)
                  ELSE NoError]

NoEvent == Nil

\* UnmarshalEvent
UnmarshalEvent(b) ==
    LET x == DecodeHeader(b)
        d == DecodeBody(b, NewEventType(x.Type))
    IN IF x.err # NoError THEN [event |-> NoEvent, err |-> x.err]
       ELSE IF d.err # NoError THEN [event |-> NoEvent, err |-> d.err]
       ELSE [event |-> [EventType |-> d.y, EventCreatedOn |-> x.EventCreatedOn],
             err |-> NoError]

InitEvent ==
    /\ NotSummarising
    /\ input \in EventTexts
    /\ output = Nil

CallUnmarshalEvent ==
    /\ output = Nil
    /\ output' = UnmarshalEvent(input)
    /\ UNCHANGED <<input, summariseVars>>

\* one call of UnmarshalEvent
SpecEvent == InitEvent /\ [][CallUnmarshalEvent]_vars

\* C24: the Event UnmarshalEvent returns has the Type of the text's type tag, as one
\* of the 17 known structs for their tags and as an UnknownEventType for any other
\* tag, and the EventCreatedOn decoded from the text; when one of the two decoding
\* steps fails it returns an error and no Event.
C24_EventOfTag ==
    output # Nil =>
        LET x == DecodeHeader(input)
            failed == x.err # NoError \/ DecodeBody(input, NewEventType(x.Type)).err # NoError
        IN IF failed THEN output.event = NoEvent /\ output.err # NoError
           ELSE /\ output.err = NoError
                /\ output.event # NoEvent
                /\ TypeOf(output.event.EventType) = x.Type
                /\ x.Type \in KnownTags <=>
                        output.event.EventType.struct # "UnknownEventType"
                /\ output.event.EventCreatedOn = x.EventCreatedOn

----------------------------------------------------------------------------
(* Client.Call: strings and bodies are sequences of characters *)

\* (mutant) only the url that is the prefix itself is refused
HasPrefix_Whole(str, prefix) == str = prefix

\* strings.HasPrefix
HasPrefix(str, prefix) ==
    Len(str) >= Len(prefix) /\ SubSeq(str, 1, Len(prefix)) = prefix

\* strings.TrimPrefix
TrimPrefix(str, prefix) ==
    IF HasPrefix(str, prefix) THEN SubSeq(str, Len(prefix) + 1, Len(str)) ELSE str

\* the junk in front of every response
invalidPrefix == <<")", "]", "}", "'", "\n">>

StatusOK == 200

\* the urls Call is called with
CallURLs ==
    {<<"/", "a", "/", "x">>, <<"/", "a", "/">>, <<"/", "a">>, <<"/", "x">>, <<"x">>,
     <<"a", "/", "x">>, <<>>}

\* the bodies Call is called with: none, one json.Marshal encodes, one it does not
CallBodies == {Nil, [encodable |-> TRUE], [encodable |-> FALSE]}

\* the methods: one http.NewRequest accepts and one it does not
CallMethods == {"GET", "G ET"}

ResponseBodies ==
    {invalidPrefix \o <<"{", "}">>, invalidPrefix \o <<"{">>, invalidPrefix,
     <<")", "]", "}", "'", " ", "{", "}">>, <<")", "]", "}">>, <<"{", "}">>, <<>>}

\* what c.Client.Do comes back with: an error, or a response
DoResults ==
    {[err |-> Errorf("dial tcp: connection refused", NoError)]}
        \cup {[err |-> NoError, StatusCode |-> st, Body |-> b] :
                  st \in {StatusOK, 201, 404}, b \in ResponseBodies}

\* json.NewDecoder(body).Decode(resp) for a resp that fits: the body has to hold a
\* whole JSON value
Decode(body) ==
    IF body = <<"{", "}">> THEN NoError ELSE Errorf("unexpected EOF", NoError)

CallError(e, response) == [CallError |-> TRUE, Err |-> e, Response |-> response]

\* Client.Call for the client root c.root; sent holds the requests handed to Do
Call(in) ==
    IF HasPrefix(in.url, <<"/", "a", "/">>)
    THEN [err |-> Errorf("invalid url: must not begin with /a/", NoError), sent |-> <<>>]
    ELSE IF in.body # Nil /\ ~in.body.encodable
    THEN [err |-> Errorf("json: unsupported type", NoError), sent |-> <<>>]
    ELSE IF in.method # "GET"
    THEN [err |-> Errorf("could not create request",
                         Errorf("net/http: invalid method", NoError)),
          sent |-> <<>>]
    ELSE LET req == [method |-> in.method,
                     url |-> <<"c.root", "/", "a", "/">> \o TrimPrefix(in.url, <<"/">>),
                     contentType |-> IF in.body # Nil
                                     THEN "application/json; charset=UTF-8" ELSE "",
                     basicAuth |-> TRUE]
             r == in.do
         IN [sent |-> <<req>>,
             err |-> IF r.err # NoError THEN Errorf("HTTP request failed", r.err)
                     ELSE IF r.StatusCode # StatusOK
                     THEN CallError(Errorf("response status != 200", NoError), r.Body)
                     ELSE IF Len(r.Body) < Len(invalidPrefix)
                             \/ SubSeq(r.Body, 1, Len(invalidPrefix)) # invalidPrefix
                     THEN Errorf("expected prefix", NoError)
                     ELSE Decode(SubSeq(r.Body, Len(invalidPrefix) + 1, Len(r.Body)))]

InitCall ==
    /\ NotSummarising
    /\ input \in [url : CallURLs, body : CallBodies, method : CallMethods, do : DoResults]
    /\ output = Nil

CallCall ==
    /\ output = Nil
    /\ output' = Call(input)
    /\ UNCHANGED <<input, summariseVars>>

\* one call of Client.Call
SpecCall == InitCall /\ [][CallCall]_vars

\* the url of the call begins with /a/
BeginsWithA ==
    Len(input.url) >= 3 /\ input.url[1] = "/" /\ input.url[2] = "a" /\ input.url[3] = "/"

\* the body of the response begins with the five bytes )]}' and newline
BeginsWithJunk ==
    /\ Len(input.do.Body) >= 5
    /\ input.do.Body[1] = ")" /\ input.do.Body[2] = "]" /\ input.do.Body[3] = "}"
    /\ input.do.Body[4] = "'" /\ input.do.Body[5] = "\n"

\* a request was sent and a response came back
Responded == output.sent # <<>> /\ input.do.err = NoError

\* what the claim C25 says of every url, of a nil return and of a status other than 200
CallContract ==
    /\ BeginsWithA => output.err # NoError /\ output.sent = <<>>
    /\ output.err = NoError =>
          Responded /\ input.do.StatusCode = 200 /\ BeginsWithJunk
    /\ (Responded /\ input.do.StatusCode # 200) =>
          /\ output.err # NoError
          /\ DOMAIN output.err = {"CallError", "Err", "Response"}
          /\ output.err.Response = input.do.Body

\* C25 as stated: a url that begins with /a/ is refused without a request, for any
\* other url a request is sent, nil is returned only for status 200 and a body that
\* begins with the prefix, and another status yields a CallError with the body.
C25_CallAsStated ==
    output # Nil =>
        /\ CallContract
        /\ ~BeginsWithA => Len(output.sent) = 1

\* C25, amended: for any other url a request is sent when the body, if there is one,
\* can be encoded and the request can be made; when not, Call returns that error
\* and sends nothing.
C25_Call ==
    output # Nil =>
        /\ CallContract
        /\ ~BeginsWithA =>
              IF (input.body = Nil \/ input.body.encodable) /\ input.method = "GET"
              THEN Len(output.sent) = 1
              ELSE output.sent = <<>> /\ output.err # NoError

\* a call with a url that does not begin with /a/ and a body that cannot be encoded
\* has returned
C25_Witness ==
    /\ output # Nil
    /\ input.url = <<"/", "x">>
    /\ input.body # Nil
    /\ ~input.body.encodable
    /\ output.sent = <<>>
    /\ output.err # NoError

----------------------------------------------------------------------------
(* Timestamp: MarshalText and UnmarshalText *)

\* the layout yyyy-mm-dd hh:mm:ss.fffffffff, a character each
timestampLayout ==
    <<"2", "0", "0", "6", "-", "0", "1", "-", "0", "2", " ",
      "1", "5", ":", "0", "4", ":", "0", "5", ".",
      "9", "9", "9", "9", "9", "9", "9", "9", "9">>

\* the instants: a second of the day 2021-03-04 (UTC) and the nanoseconds past it
SecondsOfDay == {0, 9, 59, 60, 3599, 3600, 45296, 86399}
Nanoseconds ==
    {0, 1, 9, 10, 100, 1000000, 120000000, 123456780, 123456789, 500000000,
     999999990, 999999999}

Timestamp(sec, nsec) == [sec |-> sec, nsec |-> nsec]

TheDay == <<"2", "0", "2", "1", "-", "0", "3", "-", "0", "4">>

\* a number below 100 in two digits
Pad2(n) == <<Digit(n \div 10), Digit(n % 10)>>

\* the nine digits of a number of nanoseconds
Digits9(n) ==
    LET pow == <<100000000, 10000000, 1000000, 100000, 10000, 1000, 100, 10, 1>>
    IN [i \in 1..9 |-> Digit((n \div pow[i]) % 10)]

RECURSIVE TrimZeros(_)
TrimZeros(ds) ==
    IF ds # <<>> /\ ds[Len(ds)] = "0" THEN TrimZeros(SubSeq(ds, 1, Len(ds) - 1)) ELSE ds

\* the element .999999999 of a layout, in Time.AppendFormat: the fraction without
\* its trailing zeros, and nothing at all for a whole second
FormatFraction(nsec) ==
    LET ds == TrimZeros(Digits9(nsec))
    IN IF ds = <<>> THEN <<>> ELSE <<".">> \o ds

\* Timestamp.MarshalText
MarshalText(ts) ==
    TheDay \o <<" ">> \o Pad2(ts.sec \div 3600) \o <<":">> \o Pad2((ts.sec % 3600) \div 60)
        \o <<":">> \o Pad2(ts.sec % 60) \o FormatFraction(ts.nsec)

IsDigit(c) == \E d \in 0..9 : Digit(d) = c

DigitValue(c) == CHOOSE d \in 0..9 : Digit(d) = c

\* the number a sequence of digits is the decimal notation of
RECURSIVE Atoi(_)
Atoi(ds) ==
    IF ds = <<>> THEN 0 ELSE 10 * Atoi(SubSeq(ds, 1, Len(ds) - 1)) + DigitValue(ds[Len(ds)])

\* time.Parse(timestampLayout, b) for a text b as long as the layout, of the day
\* TheDay
Parse(b) ==
    LET digitsAt == {12, 13, 15, 16, 18, 19} \cup 21..29
        wellFormed ==
            /\ SubSeq(b, 1, 10) = TheDay
            /\ b[11] = " " /\ b[14] = ":" /\ b[17] = ":" /\ b[20] = "."
            /\ \A i \in digitsAt : IsDigit(b[i])
    IN IF ~wellFormed THEN [err |-> Errorf("parsing time", NoError)]
       ELSE [err |-> NoError,
             t |-> Timestamp(3600 * Atoi(SubSeq(b, 12, 13)) + 60 * Atoi(SubSeq(b, 15, 16))
                                + Atoi(SubSeq(b, 18, 19)),
                             Atoi(SubSeq(b, 21, 29)))]

ZeroTimestamp == [zero |-> TRUE]

\* Timestamp.UnmarshalText on a zero Timestamp: the error, and the Timestamp after
UnmarshalText(b) ==
    IF Len(b) # Len(timestampLayout)
    THEN [err |-> Errorf("unknown date format", NoError), ts |-> ZeroTimestamp]
    ELSE LET p == Parse(b)
         IN IF p.err # NoError THEN [err |-> p.err, ts |-> ZeroTimestamp]
            ELSE [err |-> NoError, ts |-> p.t]

InitTimestamp ==
    /\ NotSummarising
    /\ input \in {Timestamp(s, n) : s \in SecondsOfDay, n \in Nanoseconds}
    /\ output = Nil

CallMarshalText ==
    /\ output = Nil
    /\ output' = [text |-> MarshalText(input)]
    /\ UNCHANGED <<input, summariseVars>>

CallUnmarshalText ==
    /\ output # Nil
    /\ DOMAIN output = {"text"}
    /\ output' = [text |-> output.text, back |-> UnmarshalText(output.text)]
    /\ UNCHANGED <<input, summariseVars>>

\* a Timestamp is encoded and the text decoded again
SpecTimestamp == InitTimestamp /\ [][CallMarshalText \/ CallUnmarshalText]_vars

\* C26: UnmarshalText applied to the text MarshalText makes of a Timestamp succeeds
\* and yields the same instant, for whole seconds and for every number of
\* nanoseconds.
C26_RoundTrip ==
    (output # Nil /\ "back" \in DOMAIN output) =>
        /\ output.back.err = NoError
        /\ output.back.ts = input

====
